---------------------------- MODULE Spec2Model ----------------------------
(***************************************************************************)
(* A model of backend/app.py: the fragment extractor (extract_elements),   *)
(* the chunk assembler (chunk_elements_by_tokens) and the /search handler  *)
(* (search_content) with its transient ChromaDB collection.                *)
(*                                                                         *)
(* Text is modelled at character level: a Python str is a sequence of      *)
(* one-character strings, so that str.split and " ".join are real          *)
(* conversions.  Markup (str(tag)) is a sequence of lexemes: a tag lexeme  *)
(* such as "<p>" or a character of text.                                   *)
(***************************************************************************)
EXTENDS Integers, Sequences, FiniteSets, TLC

(***************************************************************************)
(* Strings                                                                 *)
(***************************************************************************)

\* The only whitespace character of the model's alphabet.
SP == " "

Min(a, b) == IF a < b THEN a ELSE b

\* str.split() with no argument: the maximal runs of non-whitespace
\* characters, in order.  Computed by halving so that long texts stay cheap:
\* a run that spans the cut is glued back together.
RECURSIVE SplitRange(_, _, _)
SplitRange(s, lo, hi) ==
  IF lo > hi THEN << >>
  ELSE IF lo = hi THEN (IF s[lo] = SP THEN << >> ELSE << <<s[lo]>> >>)
  ELSE LET mid == (lo + hi) \div 2
           L == SplitRange(s, lo, mid)
           R == SplitRange(s, mid + 1, hi)
       IN  IF s[mid] # SP /\ s[mid + 1] # SP
             THEN SubSeq(L, 1, Len(L) - 1) \o << L[Len(L)] \o R[1] >> \o Tail(R)
             ELSE L \o R

split(s) == SplitRange(s, 1, Len(s))

\* sep.join(parts): the parts in order with sep between consecutive parts.
RECURSIVE JoinRange(_, _, _, _)
JoinRange(sep, parts, lo, hi) ==
  IF lo > hi THEN << >>
  ELSE IF lo = hi THEN parts[lo]
  ELSE LET mid == (lo + hi) \div 2
       IN  JoinRange(sep, parts, lo, mid) \o sep \o JoinRange(sep, parts, mid + 1, hi)

join(sep, parts) == JoinRange(sep, parts, 1, Len(parts))

\* The lists over S of at most n entries.
SeqsUpTo(S, n) == UNION {[1..k -> S] : k \in 0..n}

\* n copies of the one-letter word w separated by single spaces.
Words(w, n) == [i \in 1..(IF n = 0 THEN 0 ELSE 2 * n - 1) |-> IF i % 2 = 1 THEN w ELSE SP]

(***************************************************************************)
(* chunk_elements_by_tokens                                                *)
(***************************************************************************)

\* The tag given to every chunk (current_tag).
current_tag == "div"

\* A chunk built from the pending token and markup lists.
MakeChunk(tokens, htmls) ==
  [text |-> join(<<SP>>, tokens), html |-> join(<< >>, htmls), tag |-> current_tag]

\* The accumulator before the loop.
ChunkInit ==
  [chunks |-> << >>, current_tokens |-> << >>, current_html |-> << >>, token_count |-> 0]

\* Faulty flush tests: one that forgets the tokens about to be added, one
\* that forgets the budget.
ShouldFlushIgnoringNew(token_count, n, max_tokens, current_tokens) ==
  token_count > max_tokens /\ current_tokens # << >>

ShouldFlushAlways(token_count, n, max_tokens, current_tokens) ==
  current_tokens # << >>

\* A faulty flush test that flushes a fragment that would fit exactly.
ShouldFlushAtLimit(token_count, n, max_tokens, current_tokens) ==
  token_count + n >= max_tokens /\ current_tokens # << >>

\* The flush test of the loop.
ShouldFlush(token_count, n, max_tokens, current_tokens) ==
  token_count + n > max_tokens /\ current_tokens # << >>

\* A faulty iteration that does not skip an element without tokens.
ChunkStepNoSkip(acc, el, max_tokens) ==
  LET tokens == split(el.text)
      flush == ShouldFlush(acc.token_count, Len(tokens), max_tokens, acc.current_tokens)
      base == IF flush
                THEN [chunks |-> Append(acc.chunks,
                                        MakeChunk(acc.current_tokens, acc.current_html)),
                      current_tokens |-> << >>,
                      current_html |-> << >>,
                      token_count |-> 0]
                ELSE acc
  IN  [chunks |-> base.chunks,
       current_tokens |-> base.current_tokens \o tokens,
       current_html |-> Append(base.current_html, el.html),
       token_count |-> base.token_count + Len(tokens)]

\* One iteration of the loop over elements.
ChunkStep(acc, el, max_tokens) ==
  LET tokens == split(el.text)
      flush == ShouldFlush(acc.token_count, Len(tokens), max_tokens, acc.current_tokens)
      base == IF flush
                THEN [chunks |-> Append(acc.chunks,
                                        MakeChunk(acc.current_tokens, acc.current_html)),
                      current_tokens |-> << >>,
                      current_html |-> << >>,
                      token_count |-> 0]
                ELSE acc
  IN  IF tokens = << >> THEN acc
      ELSE [chunks |-> base.chunks,
            current_tokens |-> base.current_tokens \o tokens,
            current_html |-> Append(base.current_html, el.html),
            token_count |-> base.token_count + Len(tokens)]

\* A faulty end of the function: the pending fragments are never flushed.
ChunkFinishNoFlush(acc) == acc.chunks

\* The flush of the last chunk and the returned list.
ChunkFinish(acc) ==
  IF acc.current_tokens # << >>
    THEN Append(acc.chunks, MakeChunk(acc.current_tokens, acc.current_html))
    ELSE acc.chunks

RECURSIVE ChunkLoop(_, _, _, _)
ChunkLoop(acc, elements, i, max_tokens) ==
  IF i > Len(elements) THEN acc
  ELSE ChunkLoop(ChunkStep(acc, elements[i], max_tokens), elements, i + 1, max_tokens)

chunk_elements_by_tokens(elements, max_tokens) ==
  ChunkFinish(ChunkLoop(ChunkInit, elements, 1, max_tokens))

(***************************************************************************)
(* The parsed page: BeautifulSoup's tree                                   *)
(***************************************************************************)

\* An element (Tag) with its children, and a text node (NavigableString).
Elem(tag, kids) == [tag |-> tag, kids |-> kids]
Text(chars) == [tag |-> "#text", text |-> chars]
IsText(n) == n.tag = "#text"

\* str.strip(): leading and trailing whitespace removed.
strip(s) ==
  LET keep == {i \in 1..Len(s) : s[i] # SP}
  IN  IF keep = {} THEN << >>
      ELSE SubSeq(s, CHOOSE i \in keep : \A j \in keep : i <= j,
                     CHOOSE i \in keep : \A j \in keep : j <= i)

\* The stripped, non-empty strings below a node, in document order
\* (what get_text(..., strip=True) joins).
RECURSIVE StrippedStrings(_)
StrippedStrings(n) ==
  IF IsText(n) THEN (IF strip(n.text) = << >> THEN << >> ELSE << strip(n.text) >>)
  ELSE LET RECURSIVE Over(_)
           Over(i) == IF i > Len(n.kids) THEN << >>
                      ELSE StrippedStrings(n.kids[i]) \o Over(i + 1)
       IN  Over(1)

\* tag.get_text(sep, strip=True)
get_text(n, sep) == join(sep, StrippedStrings(n))

\* str(tag): the element's own tags around its children's markup.
RECURSIVE Markup(_)
Markup(n) ==
  IF IsText(n) THEN n.text
  ELSE LET RECURSIVE Over(_)
           Over(i) == IF i > Len(n.kids) THEN << >>
                      ELSE Markup(n.kids[i]) \o Over(i + 1)
       IN  << "<" \o n.tag \o ">" >> \o Over(1) \o << "</" \o n.tag \o ">" >>

\* A faulty traversal that does not go below a blacklisted element.
RECURSIVE find_all_pruning(_)
find_all_pruning(n) ==
  IF IsText(n) THEN << >>
  ELSE LET RECURSIVE Over(_)
           Over(i) == IF i > Len(n.kids) THEN << >>
                      ELSE (IF IsText(n.kids[i]) THEN << >>
                            ELSE IF n.kids[i].tag \in {"noscript", "nav", "header", "footer"}
                              THEN << n.kids[i] >>
                              ELSE << n.kids[i] >> \o find_all_pruning(n.kids[i]))
                           \o Over(i + 1)
       IN  Over(1)

\* tag.find_all(recursive=True): every descendant element, in document order.
RECURSIVE find_all(_)
find_all(n) ==
  IF IsText(n) THEN << >>
  ELSE LET RECURSIVE Over(_)
           Over(i) == IF i > Len(n.kids) THEN << >>
                      ELSE (IF IsText(n.kids[i]) THEN << >>
                            ELSE << n.kids[i] >> \o find_all(n.kids[i]))
                           \o Over(i + 1)
       IN  Over(1)

\* The tags search_content removes from the tree before extraction.
CleanTags == {"script", "style", "header", "footer", "nav"}

\* for tag in soup([...]): tag.decompose() -- the tree without the subtrees
\* of the elements whose tag is in tags.
RECURSIVE decompose(_, _)
decompose(n, tags) ==
  IF IsText(n) THEN n
  ELSE LET RECURSIVE Over(_)
           Over(i) == IF i > Len(n.kids) THEN << >>
                      ELSE (IF ~IsText(n.kids[i]) /\ n.kids[i].tag \in tags
                              THEN << >>
                              ELSE << decompose(n.kids[i], tags) >>)
                           \o Over(i + 1)
       IN  [n EXCEPT !.kids = Over(1)]

(***************************************************************************)
(* extract_elements                                                        *)
(***************************************************************************)

blacklist ==
  {"script", "style", "noscript", "header", "footer", "nav",
   "svg", "meta", "link", "iframe"}

\* The fewest whitespace-delimited words an extracted element has.
MinWords == 5

\* soup.body or soup
Body(soup) ==
  LET all == find_all(soup)
      hits == {i \in 1..Len(all) : all[i].tag = "body"}
  IN  IF hits = {} THEN soup
      ELSE all[CHOOSE i \in hits : \A j \in hits : i <= j]

\* A faulty test without the floor of 5 words.
QualifiesWithoutFloor(tag) ==
  /\ tag.tag \notin blacklist
  /\ get_text(tag, <<SP>>) # << >>

\* Whether the loop appends the element (neither continue is taken).
Qualifies(tag) ==
  /\ tag.tag \notin blacklist
  /\ get_text(tag, <<SP>>) # << >>
  /\ Len(split(get_text(tag, <<SP>>))) >= MinWords

\* One iteration of the loop over the tags: the elements list after it.
ExtractStep(elements, tag) ==
  IF Qualifies(tag)
    THEN Append(elements,
                [text |-> get_text(tag, <<SP>>), html |-> Markup(tag), tag |-> tag.tag])
    ELSE elements

extract_elements(soup) ==
  LET all == find_all(Body(soup))
      RECURSIVE Over(_, _)
      Over(elements, i) ==
        IF i > Len(all) THEN elements
        ELSE Over(ExtractStep(elements, all[i]), i + 1)
  IN  Over(<< >>, 1)

(***************************************************************************)
(* The collaborators of search_content                                     *)
(***************************************************************************)

\* The number of /search requests of a run.
NumReqs == 2
Req == 1..NumReqs

\* A field of the request's JSON body: absent (data.get gives None) or a str.
Absent == [present |-> FALSE, value |-> << >>]
Given(v) == [present |-> TRUE, value |-> v]

\* Python truthiness of such a field: None and "" are falsy.
Truthy(f) == f.present /\ f.value # << >>

Urls == {Absent, Given(<< >>), Given(<<"u">>)}
Queries == {Absent, Given(<< >>), Given(<<"a">>), Given(<<"a", SP, "b">>)}

\* The nesting depth of the deep page, and the words of its innermost text.
DeepLevels == 11
DeepWords == 251

RECURSIVE Nest(_)
Nest(k) ==
  IF k = 0 THEN Elem("p", << Text(Words("a", DeepWords)) >>)
  ELSE Elem("div", << Nest(k - 1), Text(<<"b">>) >>)

\* What BeautifulSoup(content, "html.parser") gives for the pages of the
\* model, by page name.
Parse(content) ==
  CASE content = "empty" ->
         Elem("[document]", << Elem("html", << Elem("body", <<
           Elem("p", << Text(Words("a", 4)) >>) >>) >>) >>)
    [] content = "one" ->
         Elem("[document]", << Elem("html", << Elem("body", <<
           Elem("p", << Text(<<SP>> \o Words("a", 6) \o <<SP>>) >>) >>) >>) >>)
    [] content = "noise" ->
         Elem("[document]", <<
           Elem("header", << Elem("p", << Text(Words("b", 5)) >>) >>),
           Elem("noscript", << Elem("p", << Text(Words("a", 5)) >>) >>),
           Elem("script", << Text(Words("b", 7)) >>),
           Elem("p", << Text(Words("a", 2)), Elem("b", << Text(Words("b", 3)) >>) >>) >>)
    [] content = "pair" ->
         Elem("[document]", << Elem("body", <<
           Elem("p", << Text(Words("a", 300)) >>),
           Elem("p", << Text(Words("b", 250)) >>) >>) >>)
    [] content = "deep" ->
         Elem("[document]", << Elem("body", << Nest(DeepLevels - 1) >>) >>)
    [] content = "notfound" ->
         Elem("[document]", << Elem("body", <<
           Elem("h1", << Text(Words("b", 5)) >>) >>) >>)

\* What requests.get can return: a status code and a body.  A server answers
\* a non-success status with a page of its own.
Responses ==
  {[status_code |-> 200, content |-> c] : c \in {"empty", "one", "noise", "pair", "deep"}}
    \cup {[status_code |-> 404, content |-> "notfound"]}

NoResponse == [status_code |-> 0, content |-> ""]

\* The names uuid4 can give a collection.
CollectionNames == {"search_1", "search_2"}

\* A faulty naming that can give a name again.
uuid4_names_repeating(given) == CollectionNames

\* The names a new call of uuid4 can give: one it has not given before.
uuid4_names(given) == CollectionNames \ given

\* The distance between the embeddings of a document and of the query: the
\* embedding function is a black box, deterministic in its two texts.
Distance(doc, query) == (3 * Len(split(doc)) + Len(query)) % 7

\* collection.query(query_texts=[q], n_results=k): the k nearest documents of
\* the collection, ascending by distance (stored order between equals), as
\* one result list per query text.
Query(coll, query, k) ==
  LET n == Len(coll.documents)
      d == [i \in 1..n |-> Distance(coll.documents[i], query)]
      Before(i, j) == d[i] < d[j] \/ (d[i] = d[j] /\ i < j)
      rank == [i \in 1..n |-> Cardinality({j \in 1..n : Before(j, i)})]
      order == [p \in 1..Min(k, n) |-> CHOOSE i \in 1..n : rank[i] = p - 1]
  IN  [documents |-> << [p \in DOMAIN order |-> coll.documents[order[p]]] >>,
       metadatas |-> << [p \in DOMAIN order |-> coll.metadatas[order[p]]] >>,
       distances |-> << [p \in DOMAIN order |-> d[order[p]]] >>,
       ids |-> << [p \in DOMAIN order |-> coll.ids[order[p]]] >>]

NoResults == [documents |-> << >>, metadatas |-> << >>, distances |-> << >>, ids |-> << >>]

(***************************************************************************)
(* search_content: its pure parts                                          *)
(***************************************************************************)

\* max_tokens as search_content passes it.
MaxTokens == 500

\* The most neighbours asked of the index.
TopK == 10

\* A faulty check that forgets the query.
RequestInvalidUrlOnly(u, q) == ~Truthy(u)

\* if not url or not query_text
RequestInvalid(u, q) == ~Truthy(u) \/ ~Truthy(q)

\* From the response body to the chunks: parse, clean, extract, chunk.
PageChunks(content) ==
  chunk_elements_by_tokens(extract_elements(decompose(Parse(content), CleanTags)),
                           MaxTokens)

\* A faulty check that never short-circuits.
NoChunksNever(els) == FALSE

\* if not elements
NoChunks(els) == els = << >>

\* The four lists handed to collection.add.
texts(els) == [i \in 1..Len(els) |-> els[i].text]
html_chunks(els) == [i \in 1..Len(els) |-> els[i].html]
ids(els) == [i \in 1..Len(els) |-> ToString(i - 1)]

\* A faulty metadata list that gives each chunk the markup of the next one.
metadatas_shifted(u, els) ==
  [i \in 1..Len(els) |->
     [source |-> u, index |-> i - 1, tag |-> els[i].tag,
      html |-> html_chunks(els)[(i % Len(els)) + 1]]]

metadatas(u, els) ==
  [i \in 1..Len(els) |->
     [source |-> u, index |-> i - 1, tag |-> els[i].tag, html |-> html_chunks(els)[i]]]

\* A faulty n_results without the cap.
NResultsUncapped(els) == Len(els)

\* n_results=min(10, len(texts))
NResults(els) == Min(TopK, Len(texts(els)))

\* The formatting loop over the first result list.
formatted_results(res) ==
  LET docs == res.documents[1]
      metas == res.metadatas[1]
      distances == res.distances[1]
  IN  [i \in 1..Len(docs) |->
         [text |-> docs[i],
          html |-> IF i <= Len(metas) THEN metas[i].html ELSE << >>,
          tag |-> IF i <= Len(metas) THEN metas[i].tag ELSE "",
          score |-> distances[i]]]

\* The three replies of the handler.
NoReply == [status |-> 0, body |-> "none", error |-> "", results |-> << >>]
ClientError ==
  [status |-> 400, body |-> "error", error |-> "URL and Query are required", results |-> << >>]
ResultsReply(res) == [status |-> 200, body |-> "results", error |-> "", results |-> res]
\* A faulty error reply that hides the failure's description.
ErrorReplyGeneric(e) ==
  [status |-> 500, body |-> "error", error |-> "Internal Server Error", results |-> << >>]

\* except Exception as e: the reply carries str(e).
ErrorReply(e) == [status |-> 500, body |-> "error", error |-> e, results |-> << >>]

(***************************************************************************)
(* State                                                                   *)
(***************************************************************************)

VARIABLES
  \* search_content, per request
  pc,               \* where the handler is
  url,              \* data.get("url")
  query_text,       \* data.get("query")
  response,         \* what requests.get returned
  elements,         \* the chunks
  collection_name,  \* the name given to the request's collection
  n_results,        \* the n_results the index was asked for
  results,          \* what collection.query returned
  reply,            \* what the handler returned to the client
  calls,            \* the calls made to the collaborators, in order
  raised,           \* str(e) of the exception raised in the try block
  \* the index engine (chroma_client)
  collections,      \* the existing collections, by name
  \* the network
  web,              \* the responses the servers of the run can give
  \* extract_elements, one call
  epc,              \* where the call is
  soup,             \* its soup argument
  epos,             \* the loop's position in body.find_all(recursive=True)
  extracted,        \* its elements list
  \* chunk_elements_by_tokens, one call
  cpc,              \* where the call is
  in_elements,      \* its elements argument
  max_tokens,       \* its max_tokens argument
  pos,              \* the loop's position in elements
  chunks,
  current_tokens,
  current_html,
  token_count,
  returned          \* the returned list

handler_vars ==
  << pc, url, query_text, response, elements, collection_name, n_results, results,
     reply, calls, raised, collections >>
chunker_vars ==
  << cpc, in_elements, max_tokens, pos, chunks, current_tokens, current_html,
     token_count, returned >>
extractor_vars == << epc, soup, epos, extracted >>
vars == << handler_vars, chunker_vars, extractor_vars, web >>

(***************************************************************************)
(* search_content, step by step: a step ends at a call to a collaborator   *)
(***************************************************************************)

\* except Exception as e: return jsonify({"error": str(e)}), 500
Except(r, e) ==
  /\ raised' = [raised EXCEPT ![r] = e]
  /\ reply' = [reply EXCEPT ![r] = ErrorReply(e)]
  /\ pc' = [pc EXCEPT ![r] = "done"]

\* The request arrives; url and query are read and checked.
Receive(r) ==
  /\ pc[r] = "idle"
  /\ \E u \in Urls, q \in Queries :
       /\ url' = [url EXCEPT ![r] = u]
       /\ query_text' = [query_text EXCEPT ![r] = q]
       /\ IF RequestInvalid(u, q)
            THEN /\ reply' = [reply EXCEPT ![r] = ClientError]
                 /\ pc' = [pc EXCEPT ![r] = "done"]
            ELSE /\ reply' = reply
                 /\ pc' = [pc EXCEPT ![r] = "fetch"]
  /\ UNCHANGED << response, elements, collection_name, n_results, results, calls,
                  raised, collections, chunker_vars, extractor_vars, web >>

\* requests.get(url, timeout=10) returns, whatever the status code.
Fetch(r) ==
  /\ pc[r] = "fetch"
  /\ \E resp \in web : response' = [response EXCEPT ![r] = resp]
  /\ calls' = [calls EXCEPT ![r] = Append(@, "fetch")]
  /\ pc' = [pc EXCEPT ![r] = "parse"]
  /\ UNCHANGED << url, query_text, elements, collection_name, n_results, results,
                  reply, raised, collections, chunker_vars, extractor_vars, web >>

\* requests.get raises: no connection, or the timeout.
FetchFails(r) ==
  /\ pc[r] = "fetch"
  /\ calls' = [calls EXCEPT ![r] = Append(@, "fetch")]
  /\ Except(r, "fetch failed")
  /\ UNCHANGED << url, query_text, response, elements, collection_name, n_results,
                  results, collections, chunker_vars, extractor_vars, web >>

\* The page is parsed, cleaned, extracted and chunked; no chunk ends the
\* request with an empty result list.
Chunk(r) ==
  /\ pc[r] = "parse"
  /\ LET els == PageChunks(response[r].content)
     IN  /\ elements' = [elements EXCEPT ![r] = els]
         /\ IF NoChunks(els)
              THEN /\ reply' = [reply EXCEPT ![r] = ResultsReply(<< >>)]
                   /\ pc' = [pc EXCEPT ![r] = "done"]
              ELSE /\ reply' = reply
                   /\ pc' = [pc EXCEPT ![r] = "create"]
  /\ UNCHANGED << url, query_text, response, collection_name, n_results, results,
                  calls, raised, collections, chunker_vars, extractor_vars, web >>

\* The parser raises on the body.
ParseFails(r) ==
  /\ pc[r] = "parse"
  /\ Except(r, "parse failed")
  /\ UNCHANGED << url, query_text, response, elements, collection_name, n_results,
                  results, calls, collections, chunker_vars, extractor_vars, web >>

\* chroma_client.create_collection(name=f"search_{uuid4().hex}"): uuid4 gives
\* a name no collection has.
Create(r) ==
  /\ pc[r] = "create"
  /\ \E name \in uuid4_names({collection_name[s] : s \in Req}) :
       /\ collection_name' = [collection_name EXCEPT ![r] = name]
       /\ collections' =
            [n \in DOMAIN collections \cup {name} |->
               IF n = name THEN [documents |-> << >>, ids |-> << >>, metadatas |-> << >>]
               ELSE collections[n]]
  /\ calls' = [calls EXCEPT ![r] = Append(@, "create")]
  /\ pc' = [pc EXCEPT ![r] = "add"]
  /\ UNCHANGED << url, query_text, response, elements, n_results, results, reply,
                  raised, chunker_vars, extractor_vars, web >>

\* create_collection raises: nothing was created.
CreateFails(r) ==
  /\ pc[r] = "create"
  /\ calls' = [calls EXCEPT ![r] = Append(@, "create")]
  /\ Except(r, "create failed")
  /\ UNCHANGED << url, query_text, response, elements, collection_name, n_results,
                  results, collections, chunker_vars, extractor_vars, web >>

\* collection.add(documents=texts, ids=ids, metadatas=metadatas)
Add(r) ==
  /\ pc[r] = "add"
  /\ collection_name[r] \in DOMAIN collections
  /\ collections' =
       [collections EXCEPT ![collection_name[r]] =
          [documents |-> texts(elements[r]),
           ids |-> ids(elements[r]),
           metadatas |-> metadatas(url[r].value, elements[r])]]
  /\ calls' = [calls EXCEPT ![r] = Append(@, "add")]
  /\ pc' = [pc EXCEPT ![r] = "query"]
  /\ UNCHANGED << url, query_text, response, elements, collection_name, n_results,
                  results, reply, raised, chunker_vars, extractor_vars, web >>

\* collection.add raises (the embedding or the index fails).
AddFails(r) ==
  /\ pc[r] = "add"
  /\ calls' = [calls EXCEPT ![r] = Append(@, "add")]
  /\ Except(r, "add failed")
  /\ UNCHANGED << url, query_text, response, elements, collection_name, n_results,
                  results, collections, chunker_vars, extractor_vars, web >>

\* A faulty query step that goes on to the formatting without the delete.
QueryIndexThenFormat(r) ==
  /\ pc[r] = "query"
  /\ collection_name[r] \in DOMAIN collections
  /\ n_results' = [n_results EXCEPT ![r] = NResults(elements[r])]
  /\ results' = [results EXCEPT ![r] =
                   Query(collections[collection_name[r]], query_text[r].value,
                         NResults(elements[r]))]
  /\ calls' = [calls EXCEPT ![r] = Append(@, "query")]
  /\ pc' = [pc EXCEPT ![r] = "format"]
  /\ UNCHANGED << url, query_text, response, elements, collection_name, reply,
                  raised, collections, chunker_vars, extractor_vars, web >>

\* collection.query(query_texts=[query_text], n_results=min(10, len(texts)))
QueryIndex(r) ==
  /\ pc[r] = "query"
  /\ collection_name[r] \in DOMAIN collections
  /\ n_results' = [n_results EXCEPT ![r] = NResults(elements[r])]
  /\ results' = [results EXCEPT ![r] =
                   Query(collections[collection_name[r]], query_text[r].value,
                         NResults(elements[r]))]
  /\ calls' = [calls EXCEPT ![r] = Append(@, "query")]
  /\ pc' = [pc EXCEPT ![r] = "delete"]
  /\ UNCHANGED << url, query_text, response, elements, collection_name, reply,
                  raised, collections, chunker_vars, extractor_vars, web >>

\* collection.query raises.
QueryFails(r) ==
  /\ pc[r] = "query"
  /\ n_results' = [n_results EXCEPT ![r] = NResults(elements[r])]
  /\ calls' = [calls EXCEPT ![r] = Append(@, "query")]
  /\ Except(r, "query failed")
  /\ UNCHANGED << url, query_text, response, elements, collection_name, results,
                  collections, chunker_vars, extractor_vars, web >>

\* A faulty teardown that empties the whole engine.
DeleteEverything(r) ==
  /\ pc[r] = "delete"
  /\ collections' = << >>
  /\ calls' = [calls EXCEPT ![r] = Append(@, "delete")]
  /\ pc' = [pc EXCEPT ![r] = "format"]
  /\ UNCHANGED << url, query_text, response, elements, collection_name, n_results,
                  results, reply, raised, chunker_vars, extractor_vars, web >>

\* chroma_client.delete_collection(collection_name)
Delete(r) ==
  /\ pc[r] = "delete"
  /\ collection_name[r] \in DOMAIN collections
  /\ collections' = [n \in DOMAIN collections \ {collection_name[r]} |-> collections[n]]
  /\ calls' = [calls EXCEPT ![r] = Append(@, "delete")]
  /\ pc' = [pc EXCEPT ![r] = "format"]
  /\ UNCHANGED << url, query_text, response, elements, collection_name, n_results,
                  results, reply, raised, chunker_vars, extractor_vars, web >>

\* delete_collection raises: the collection is still there.
DeleteFails(r) ==
  /\ pc[r] = "delete"
  /\ calls' = [calls EXCEPT ![r] = Append(@, "delete")]
  /\ Except(r, "delete failed")
  /\ UNCHANGED << url, query_text, response, elements, collection_name, n_results,
                  results, collections, chunker_vars, extractor_vars, web >>

\* The results are formatted and returned.
Respond(r) ==
  /\ pc[r] = "format"
  /\ reply' = [reply EXCEPT ![r] = ResultsReply(formatted_results(results[r]))]
  /\ pc' = [pc EXCEPT ![r] = "done"]
  /\ UNCHANGED << url, query_text, response, elements, collection_name, n_results,
                  results, calls, raised, collections, chunker_vars, extractor_vars, web >>

(***************************************************************************)
(* chunk_elements_by_tokens, iteration by iteration                        *)
(***************************************************************************)

\* The accumulator of the running call.
Acc ==
  [chunks |-> chunks, current_tokens |-> current_tokens,
   current_html |-> current_html, token_count |-> token_count]

\* One iteration of "for el in elements".
ChunkIterate ==
  /\ cpc = "loop"
  /\ pos <= Len(in_elements)
  /\ LET a == ChunkStep(Acc, in_elements[pos], max_tokens)
     IN  /\ chunks' = a.chunks
         /\ current_tokens' = a.current_tokens
         /\ current_html' = a.current_html
         /\ token_count' = a.token_count
  /\ pos' = pos + 1
  /\ UNCHANGED << cpc, in_elements, max_tokens, returned, handler_vars, extractor_vars, web >>

\* The loop is over: the last chunk is flushed and the list returned.
ChunkReturn ==
  /\ cpc = "loop"
  /\ pos > Len(in_elements)
  /\ chunks' = ChunkFinish(Acc)
  /\ returned' = ChunkFinish(Acc)
  /\ cpc' = "done"
  /\ UNCHANGED << in_elements, max_tokens, pos, current_tokens, current_html,
                  token_count, handler_vars, extractor_vars, web >>

(***************************************************************************)
(* extract_elements, iteration by iteration                                *)
(***************************************************************************)

\* One iteration of "for tag in body.find_all(recursive=True)".
ExtractIterate ==
  /\ epc = "loop"
  /\ epos <= Len(find_all(Body(soup)))
  /\ extracted' = ExtractStep(extracted, find_all(Body(soup))[epos])
  /\ epos' = epos + 1
  /\ UNCHANGED << epc, soup, handler_vars, chunker_vars, web >>

\* The loop is over: the list is returned.
ExtractReturn ==
  /\ epc = "loop"
  /\ epos > Len(find_all(Body(soup)))
  /\ epc' = "done"
  /\ UNCHANGED << soup, epos, extracted, handler_vars, chunker_vars, web >>

(***************************************************************************)
(* Inputs of the extractor's specification                                 *)
(***************************************************************************)

\* The most text nodes of an innermost element.
MaxTexts == 2

\* The tags of the trees: a plain one and a blacklisted one.
TreeTags == {"div", "noscript"}

\* The texts of the trees: 2 words, and 3 words with stray whitespace.
TreeTexts ==
  { Text(Words("a", 2)),
    Text(<<SP, "b", SP, SP, "b", SP, "b", SP>>) }

\* The innermost elements, and the elements around them or around a text.
InnerElements ==
  {Elem(t, kids) : t \in TreeTags, kids \in SeqsUpTo(TreeTexts, MaxTexts)}
OuterElements ==
  {Elem(t, kids) : t \in TreeTags,
                   kids \in UNION {[1..k -> InnerElements \cup TreeTexts] : k \in {0, 1, 2}}}

\* The elements around exactly one inner element.
WrapperElements == {Elem(t, << e >>) : t \in TreeTags, e \in InnerElements}

\* The documents: an outer element at the top, or in a body, or two wrapper
\* elements side by side in a body.
Documents ==
  {Elem("[document]", << e >>) : e \in OuterElements}
    \cup {Elem("[document]", << Elem("body", << e >>) >>) : e \in OuterElements}
    \cup {Elem("[document]", << Elem("body", << e, f >>) >>) :
            e \in WrapperElements, f \in WrapperElements}

(***************************************************************************)
(* Bounds and inputs of the chunker's specifications                       *)
(***************************************************************************)

\* The longest elements list, and the largest max_tokens, of SpecChunk.
MaxFrags == 4
MaxBudget == 3

\* The elements SpecChunk draws from: texts of 0 to 3 words, with and
\* without stray whitespace, each with a markup of its own.
FragPool ==
  { [text |-> << >>, html |-> <<"<e>", "</e>">>, tag |-> "e"],
    [text |-> <<"a">>, html |-> <<"<p>", "a", "</p>">>, tag |-> "p"],
    [text |-> <<"b", SP, "a">>, html |-> <<"<i>", "b", SP, "a", "</i>">>, tag |-> "i"],
    [text |-> <<SP, "a", "b", SP, SP, "b", SP, "a">>,
     html |-> <<"<q>", SP, "a", "b", SP, SP, "b", SP, "a", "</q>">>, tag |-> "q"] }


\* The scenario of the 1,200-token page: the word counts its fragments may
\* have, the total, and the longest list.
ScenarioCounts == {5, 95, 300, 500}
MaxScenarioFrags == 6

\* The lists over counts, of at most n entries, that sum to total.
RECURSIVE Compositions(_, _, _)
Compositions(counts, total, n) ==
  IF total = 0 THEN {<< >>}
  ELSE IF n = 0 THEN {}
  ELSE UNION {{<<c>> \o rest : rest \in Compositions(counts, total - c, n - 1)} :
              c \in {x \in counts : x <= total}}

\* A fragment of n words, as extract_elements builds it from a <p>.
Fragment(n) ==
  [text |-> Words("a", n), html |-> <<"<p>">> \o Words("a", n) \o <<"</p>">>, tag |-> "p"]

(***************************************************************************)
(* Specifications                                                          *)
(***************************************************************************)

\* No request is being handled but those of active; the servers give the
\* responses of served.
HandlerInit(active, served) ==
  /\ web = served
  /\ pc = [r \in Req |-> IF r \in active THEN "idle" ELSE "off"]
  /\ url = [r \in Req |-> Absent]
  /\ query_text = [r \in Req |-> Absent]
  /\ response = [r \in Req |-> NoResponse]
  /\ elements = [r \in Req |-> << >>]
  /\ collection_name = [r \in Req |-> ""]
  /\ n_results = [r \in Req |-> 0]
  /\ results = [r \in Req |-> NoResults]
  /\ reply = [r \in Req |-> NoReply]
  /\ calls = [r \in Req |-> << >>]
  /\ raised = [r \in Req |-> ""]
  /\ collections = << >>

\* chunk_elements_by_tokens(els, budget) has just been called, or (FALSE) is
\* not called at all.
ChunkerInit(called, els, budget) ==
  /\ cpc = IF called THEN "loop" ELSE "off"
  /\ in_elements = els
  /\ max_tokens = budget
  /\ pos = 1
  /\ chunks = ChunkInit.chunks
  /\ current_tokens = ChunkInit.current_tokens
  /\ current_html = ChunkInit.current_html
  /\ token_count = ChunkInit.token_count
  /\ returned = << >>

\* extract_elements(tree) has just been called, or (FALSE) is not called.
ExtractorInit(called, tree) ==
  /\ epc = IF called THEN "loop" ELSE "off"
  /\ soup = tree
  /\ epos = 1
  /\ extracted = << >>

\* One /search request, from its arrival to its reply.
Init ==
  /\ HandlerInit({1}, Responses)
  /\ ChunkerInit(FALSE, << >>, 0)
  /\ ExtractorInit(FALSE, Elem("[document]", << >>))

Next ==
  \E r \in Req :
    \/ Receive(r)
    \/ Fetch(r)
    \/ FetchFails(r)
    \/ Chunk(r)
    \/ ParseFails(r)
    \/ Create(r)
    \/ CreateFails(r)
    \/ Add(r)
    \/ AddFails(r)
    \/ QueryIndex(r)
    \/ QueryFails(r)
    \/ Delete(r)
    \/ DeleteFails(r)
    \/ Respond(r)

Spec == Init /\ [][Next]_vars

\* The responses of the run of two concurrent requests: the short pages and
\* the page of two chunks.
ConcurrentResponses ==
  {resp \in Responses : resp.content \in {"empty", "one", "pair", "notfound"}}

\* Two /search requests handled concurrently, their steps interleaved in any
\* order.
InitConcurrent ==
  /\ HandlerInit({1, 2}, ConcurrentResponses)
  /\ ChunkerInit(FALSE, << >>, 0)
  /\ ExtractorInit(FALSE, Elem("[document]", << >>))

SpecConcurrent == InitConcurrent /\ [][Next]_vars

\* One call of extract_elements on any of the documents.
InitExtract ==
  /\ HandlerInit({}, {})
  /\ ChunkerInit(FALSE, << >>, 0)
  /\ \E tree \in Documents : ExtractorInit(TRUE, tree)

NextExtract == ExtractIterate \/ ExtractReturn

SpecExtract == InitExtract /\ [][NextExtract]_vars

\* One call of chunk_elements_by_tokens on any short list of elements.
InitChunk ==
  /\ HandlerInit({}, {})
  /\ ExtractorInit(FALSE, Elem("[document]", << >>))
  /\ \E els \in SeqsUpTo(FragPool, MaxFrags), budget \in 1..MaxBudget :
       ChunkerInit(TRUE, els, budget)

NextChunk == ChunkIterate \/ ChunkReturn

SpecChunk == InitChunk /\ [][NextChunk]_vars

\* One call of chunk_elements_by_tokens, with max_tokens=500, on the fragments
\* of a page of 1,200 words of which none has more than 500.
InitScenario ==
  /\ HandlerInit({}, {})
  /\ ExtractorInit(FALSE, Elem("[document]", << >>))
  /\ \E c \in Compositions(ScenarioCounts, 1200, MaxScenarioFrags) :
       ChunkerInit(TRUE, [i \in 1..Len(c) |-> Fragment(c[i])], MaxTokens)

SpecScenario == InitScenario /\ [][NextChunk]_vars

(***************************************************************************)
(* Properties of chunk_elements_by_tokens                                  *)
(***************************************************************************)

\* The whitespace-token count of a text.
TokenCount(text) == Len(split(text))

\* The tokens of a list of texts, and the markup of a list of markups, end
\* to end.
AllTokens(items) == join(<< >>, [i \in 1..Len(items) |-> split(items[i].text)])
AllMarkup(items) == join(<< >>, [i \in 1..Len(items) |-> items[i].html])

RECURSIVE SumTokens(_, _)
SumTokens(items, i) ==
  IF i > Len(items) THEN 0 ELSE TokenCount(items[i].text) + SumTokens(items, i + 1)

\* The elements the loop does not skip.
WithTokens(items) == SelectSeq(items, LAMBDA el : split(el.text) # << >>)

\* C2 (token bound): every chunk emitted so far, and so every chunk returned,
\* has at most max_tokens whitespace tokens, unless it is exactly one element
\* of the input (its tokens and its markup) that alone has more than
\* max_tokens tokens.
C2_TokenBound ==
  cpc # "off" =>
    \A k \in 1..Len(chunks) :
      \/ TokenCount(chunks[k].text) <= max_tokens
      \/ \E j \in 1..Len(in_elements) :
           /\ TokenCount(in_elements[j].text) > max_tokens
           /\ split(chunks[k].text) = split(in_elements[j].text)
           /\ chunks[k].html = in_elements[j].html

\* C2's case: a returned list with an oversized single-element chunk and
\* with a chunk that merges elements up to exactly max_tokens.
C2_Witness ==
  /\ cpc = "done"
  /\ \E k \in 1..Len(returned) : TokenCount(returned[k].text) > max_tokens
  /\ \E k \in 1..Len(returned) :
       /\ TokenCount(returned[k].text) = max_tokens
       /\ \A j \in 1..Len(in_elements) : returned[k].html # in_elements[j].html

ScenarioPremise ==
  /\ max_tokens = 500
  /\ SumTokens(in_elements, 1) = 1200
  /\ \A j \in 1..Len(in_elements) :
       /\ TokenCount(in_elements[j].text) >= 5
       /\ TokenCount(in_elements[j].text) <= 500

\* C6 as stated: such a list is assembled into exactly 3 chunks, whose token
\* counts sum to 1,200 and are each at most 500.
C6_ExactlyThreeChunks ==
  (cpc = "done" /\ ScenarioPremise) =>
    /\ Len(returned) = 3
    /\ SumTokens(returned, 1) = 1200
    /\ \A k \in 1..Len(returned) : TokenCount(returned[k].text) <= 500

\* C6 amended: such a list is assembled into at least 3 and at most 5
\* chunks, whose token counts sum to 1,200 and are each at most 500.
C6_ThreeToFiveChunks ==
  (cpc = "done" /\ ScenarioPremise) =>
    /\ Len(returned) >= 3
    /\ Len(returned) <= 5
    /\ SumTokens(returned, 1) = 1200
    /\ \A k \in 1..Len(returned) : TokenCount(returned[k].text) <= 500

\* C6's case: a 1,200-word list that came back as 5 chunks.
C6_Witness == cpc = "done" /\ ScenarioPremise /\ Len(returned) = 5

(***************************************************************************)
(* Properties of search_content                                            *)
(***************************************************************************)

\* The request has been read (it is past the check of url and query).
Started(r) == pc[r] \notin {"off", "idle"}

\* How often the handler called the collaborator op.
CallCount(r, op) == Cardinality({i \in 1..Len(calls[r]) : calls[r][i] = op})

IndexOps == {"create", "add", "query", "delete"}

\* C1 (teardown invariant): once a request that created a collection has
\* its reply, on any exit path, the collection named for it no longer exists
\* in the index engine.
C1_TeardownOnEveryExit ==
  \A r \in Req :
    (pc[r] = "done" /\ collection_name[r] # "") =>
      collection_name[r] \notin DOMAIN collections

Chunked(r) ==
  /\ pc[r] \in {"create", "add", "query", "delete", "format", "done"}
  /\ CallCount(r, "fetch") = 1
  /\ response[r] # NoResponse
  /\ raised[r] # "parse failed"

\* C5 (empty-content short-circuit): when extraction and chunking yield no
\* chunk, the request is answered with an empty result list and the handler
\* makes no create, add, query or delete call.
C5_EmptyShortCircuit ==
  \A r \in Req :
    (Chunked(r) /\ elements[r] = << >>) =>
      /\ pc[r] = "done"
      /\ reply[r] = [status |-> 200, body |-> "results", error |-> "", results |-> << >>]
      /\ \A i \in 1..Len(calls[r]) : calls[r][i] \notin IndexOps
      /\ collection_name[r] = ""
      /\ collections = << >>

\* C5's case: a fetched page without a qualifying element, answered.
C5_Witness ==
  \E r \in Req :
    /\ pc[r] = "done"
    /\ Chunked(r)
    /\ response[r].content = "empty"
    /\ elements[r] = << >>
    /\ reply[r].status = 200

\* C7 (teardown failure is never surfaced): when delete_collection itself
\* fails, after a query that succeeded, the reply is still the result list
\* that the query gave.
C7_DeleteFailureNotSurfaced ==
  \A r \in Req :
    (pc[r] = "done" /\ raised[r] = "delete failed") =>
      /\ reply[r].status = 200
      /\ reply[r].body = "results"
      /\ Len(reply[r].results) = Len(results[r].documents[1])

\* C8 (a failed fetch fails the request): a fetch that raised, or that
\* returned a non-success status, ends the request with a 500 reply, with
\* nothing chunked, no collection created and a single fetch.
C8_FailedFetchFailsRequest ==
  \A r \in Req :
    (/\ pc[r] = "done"
     /\ CallCount(r, "fetch") >= 1
     /\ response[r].status_code \notin 200..299) =>
      /\ reply[r].status = 500
      /\ elements[r] = << >>
      /\ collection_name[r] = ""
      /\ calls[r] = << "fetch" >>

\* C9 (failures end in a 500): a failure raised at any stage from the fetch
\* on ends the request at once with a 500 reply whose error is the failure's
\* description and which carries no result; the stage that failed is the
\* last one called, and no stage is called twice.
C9_FailuresBecome500 ==
  \A r \in Req :
    /\ raised[r] # "" =>
         /\ pc[r] = "done"
         /\ reply[r].status = 500
         /\ reply[r].body = "error"
         /\ reply[r].error = raised[r]
         /\ reply[r].results = << >>
    /\ reply[r].status = 500 => raised[r] # ""
    /\ \A op \in IndexOps \cup {"fetch"} : CallCount(r, op) <= 1

\* C9's case: a query that raised after the chunks were added.
C9_Witness ==
  \E r \in Req :
    /\ pc[r] = "done"
    /\ raised[r] = "query failed"
    /\ calls[r] = << "fetch", "create", "add", "query" >>
    /\ reply[r].status = 500

\* C10 (result size and order): the index is asked for exactly
\* min(10, number of chunks) neighbours, and a 200 reply of a page with
\* chunks holds at most that many results, in the order the index returned
\* them, ascending by score.
C10_ResultSizeAndOrder ==
  \A r \in Req :
    LET n == Len(elements[r])
        m == IF n < 10 THEN n ELSE 10
        out == reply[r].results
    IN  /\ CallCount(r, "query") = 1 => n_results[r] = m
        /\ (pc[r] = "done" /\ reply[r].status = 200 /\ n > 0) =>
             /\ Len(out) <= m
             /\ Len(out) = Len(results[r].documents[1])
             /\ \A i \in 1..Len(out) :
                  /\ out[i].text = results[r].documents[1][i]
                  /\ out[i].score = results[r].distances[1][i]
             /\ \A i, j \in 1..Len(out) : i < j => out[i].score <= out[j].score

\* C10's case: a page of more than 10 chunks answered with 10 results whose
\* order is not the order of the chunks.
C10_Witness ==
  \E r \in Req :
    /\ pc[r] = "done"
    /\ reply[r].status = 200
    /\ Len(elements[r]) > 10
    /\ Len(reply[r].results) = 10
    /\ reply[r].results[1].score < reply[r].results[10].score
    /\ reply[r].results[2].text # elements[r][2].text

(***************************************************************************)
(* Properties of concurrent requests                                       *)
(***************************************************************************)

\* The request has created its collection and not yet deleted it.
Holding(r) == pc[r] \in {"add", "query", "delete"}

\* C11 (isolation of concurrent requests): under any interleaving, no two
\* requests have the same collection; from its creation to its own delete a
\* request's collection exists, is empty until the request's own add and
\* holds exactly the request's chunks after it, whatever the other requests
\* add or delete; and the results a request gets are documents of its own.
C11_Isolation ==
  \A r \in Req :
    /\ \A s \in Req \ {r} :
         collection_name[r] # "" => collection_name[s] # collection_name[r]
    /\ Holding(r) => collection_name[r] \in DOMAIN collections
    /\ pc[r] = "add" => collections[collection_name[r]].documents = << >>
    /\ pc[r] \in {"query", "delete"} =>
         /\ Len(collections[collection_name[r]].documents) = Len(elements[r])
         /\ \A i \in 1..Len(elements[r]) :
              /\ collections[collection_name[r]].documents[i] = elements[r][i].text
              /\ collections[collection_name[r]].metadatas[i].html = elements[r][i].html
    /\ CallCount(r, "query") = 1 /\ raised[r] # "query failed" =>
         /\ Len(results[r].documents[1]) = Min(10, Len(elements[r]))
         /\ \A i \in 1..Len(results[r].documents[1]) :
              \E k \in 1..Len(elements[r]) :
                results[r].documents[1][i] = elements[r][k].text

\* C11's case: one request has torn its collection down and has its results
\* while the other, on another page, is still to query its own collection.
C11_Witness ==
  \E r, s \in Req :
    /\ r # s
    /\ pc[r] = "done"
    /\ reply[r].status = 200
    /\ Len(reply[r].results) = 2
    /\ collection_name[r] \notin DOMAIN collections
    /\ pc[s] = "query"
    /\ response[s].content = "one"
    /\ collection_name[s] \in DOMAIN collections

(***************************************************************************)
(* The order of the stages                                                 *)
(***************************************************************************)

\* The collaborator calls of a request that runs to its end, in order.
StageOrder == << "fetch", "create", "add", "query", "delete" >>

\* C12 (stage ordering): the calls of a request are, in this order and each
\* at most once, fetch, create, add, query, delete; chunks exist only after
\* the fetch returned; a collection is created only after chunking gave a
\* non-empty list; it is queried only when it holds all the chunks; the reply
\* is the last step; and a reply with results comes after the delete, with
\* the collection gone.
C12_StageOrder ==
  \A r \in Req :
    /\ Len(calls[r]) <= Len(StageOrder)
    /\ calls[r] = SubSeq(StageOrder, 1, Len(calls[r]))
    /\ elements[r] # << >> => (calls[r] # << >> /\ response[r] # NoResponse)
    /\ CallCount(r, "create") = 1 => elements[r] # << >>
    /\ pc[r] = "query" =>
         Len(collections[collection_name[r]].documents) = Len(elements[r])
    /\ CallCount(r, "query") = 1 => CallCount(r, "add") = 1
    /\ reply[r] # NoReply <=> pc[r] = "done"
    /\ (pc[r] = "done" /\ reply[r].status = 200 /\ reply[r].results # << >>) =>
         /\ calls[r] = StageOrder
         /\ collection_name[r] \notin DOMAIN collections

\* C12's case: a request that went through every stage and returned results.
C12_Witness ==
  \E r \in Req :
    /\ pc[r] = "done"
    /\ reply[r].status = 200
    /\ Len(reply[r].results) = 2
    /\ calls[r] = StageOrder
    /\ collections = << >>

(***************************************************************************)
(* Properties of extract_elements                                          *)
(***************************************************************************)

\* C13 (fragment floor): every fragment extracted so far, and so every
\* fragment returned, has a non-empty text of at least 5 whitespace-delimited
\* tokens.
C13_FragmentFloor ==
  epc # "off" =>
    \A k \in 1..Len(extracted) :
      /\ extracted[k].text # << >>
      /\ TokenCount(extracted[k].text) >= 5

\* C13's case: a returned list with a fragment of exactly 5 tokens, from a
\* tree with an element that has text but fewer than 5 tokens.
C13_Witness ==
  /\ epc = "done"
  /\ \E k \in 1..Len(extracted) : TokenCount(extracted[k].text) = 5
  /\ \E i \in 1..Len(find_all(Body(soup))) :
       /\ find_all(Body(soup))[i].tag = "div"
       /\ TokenCount(get_text(find_all(Body(soup))[i], <<SP>>)) \in 1..4

\* The paths (child indices from n down) to the elements below n.
RECURSIVE ElementPaths(_)
ElementPaths(n) ==
  UNION {{<<i>>} \cup {<<i>> \o q : q \in ElementPaths(n.kids[i])} :
         i \in {j \in 1..Len(n.kids) : ~IsText(n.kids[j])}}

\* The node at the end of a path from n.
RECURSIVE NodeAt(_, _)
NodeAt(n, path) == IF path = << >> THEN n ELSE NodeAt(n.kids[Head(path)], Tail(path))

\* Document order: an ancestor comes before its descendants, and an earlier
\* sibling's subtree before a later sibling's.
ComesBefore(p, q) ==
  \E i \in 1..Len(q) :
    /\ i <= Len(p) + 1
    /\ \A j \in 1..(i - 1) : p[j] = q[j]
    /\ (i = Len(p) + 1 \/ p[i] < q[i])

\* The elements below the traversal root that are to be emitted: a tag
\* outside the blacklist and a text of 5 words or more.
EmittedPaths ==
  {p \in ElementPaths(Body(soup)) :
     /\ NodeAt(Body(soup), p).tag \notin
          {"script", "style", "noscript", "header", "footer", "nav",
           "svg", "meta", "link", "iframe"}
     /\ TokenCount(get_text(NodeAt(Body(soup), p), <<SP>>)) >= 5}

\* C15 (blacklist skip without pruning): the returned list holds, in
\* document order, exactly one fragment (its text, its markup, its tag) for
\* each element below the traversal root whose tag is not blacklisted and
\* whose text has 5 words or more -- below a blacklisted element too, and
\* for an element as well as for its ancestor -- and none for the root or for a
\* blacklisted element.
C15_SkipWithoutPruning ==
  epc = "done" =>
    /\ Len(extracted) = Cardinality(EmittedPaths)
    /\ \A p \in EmittedPaths :
         LET k == 1 + Cardinality({q \in EmittedPaths : ComesBefore(q, p)})
             node == NodeAt(Body(soup), p)
         IN  /\ extracted[k].text = get_text(node, <<SP>>)
             /\ extracted[k].html = Markup(node)
             /\ extracted[k].tag = node.tag
    /\ \A k \in 1..Len(extracted) : extracted[k].tag \notin {"noscript", "body", "[document]"}

\* C15's case: a body whose own text qualifies, holding a noscript element
\* that is not emitted while an element below it is, and an emitted element
\* with an emitted ancestor.
C15_Witness ==
  /\ epc = "done"
  /\ Body(soup).tag = "body"
  /\ \E p, q \in EmittedPaths : Len(p) < Len(q) /\ SubSeq(q, 1, Len(p)) = p
  /\ \E p \in ElementPaths(Body(soup)), q \in EmittedPaths :
       /\ NodeAt(Body(soup), p).tag = "noscript"
       /\ Len(p) < Len(q)
       /\ SubSeq(q, 1, Len(p)) = p
       /\ TokenCount(get_text(NodeAt(Body(soup), p), <<SP>>)) >= 5

(***************************************************************************)
(* Determinism across runs                                                 *)
(***************************************************************************)

\* The request's query has returned.
Queried(r) == CallCount(r, "query") = 1 /\ raised[r] # "query failed"

\* Two runs on the same page and the same query.
SameInput(r, s) ==
  /\ response[r] # NoResponse
  /\ response[s] # NoResponse
  /\ response[r].content = response[s].content
  /\ query_text[r] = query_text[s]

StoredUnder(r, id) == {k \in 1..Len(elements[r]) : ids(elements[r])[k] = id}

\* C16 (text/markup correlation through the index): from a request's add to
\* its delete its collection holds its chunks under the ids "0" .. "n-1",
\* all different, with the metadata index equal to the position; and every
\* result of a 200 reply has the text, the markup and the tag of one and the
\* same chunk, the one stored under the result's id.
C16_TextMarkupCorrelation ==
  \A r \in Req :
    /\ pc[r] \in {"query", "delete"} =>
         LET coll == collections[collection_name[r]]
         IN  /\ Len(coll.ids) = Len(elements[r])
             /\ \A i \in 1..Len(coll.ids) :
                  /\ coll.ids[i] = ToString(i - 1)
                  /\ coll.metadatas[i].index = i - 1
                  /\ \A j \in 1..Len(coll.ids) : coll.ids[i] = coll.ids[j] => i = j
    /\ pc[r] = "done" /\ reply[r].status = 200 =>
         \A i \in 1..Len(reply[r].results) :
           /\ Cardinality(StoredUnder(r, results[r].ids[1][i])) = 1
           /\ \A k \in StoredUnder(r, results[r].ids[1][i]) :
                /\ results[r].metadatas[1][i].index = k - 1
                /\ reply[r].results[i].text = elements[r][k].text
                /\ reply[r].results[i].html = elements[r][k].html
                /\ reply[r].results[i].tag = elements[r][k].tag

\* C16's case: a 200 reply on a page of more than 10 chunks of different
\* texts and markups, whose first result is not the page's first chunk.
C16_Witness ==
  \E r \in Req :
    /\ pc[r] = "done"
    /\ reply[r].status = 200
    /\ Len(elements[r]) > 10
    /\ \A i, j \in 1..Len(elements[r]) :
         i # j => /\ elements[r][i].text # elements[r][j].text
                  /\ elements[r][i].html # elements[r][j].html
    /\ results[r].ids[1][1] # "0"
    /\ reply[r].results[1].html # elements[r][1].html

(***************************************************************************)
(* Greedy maximality of the chunks                                         *)
(***************************************************************************)

\* The tokens of the first j items of a list.
PrefixTokens(items, j) == SumTokens(items, 1) - SumTokens(items, j + 1)

\* The positions, among the elements the loop keeps, of the first fragment
\* of the chunk after chunk k: the one before which exactly the tokens of
\* chunks 1 to k lie.
FirstFragmentAfter(k) ==
  {j \in 1..Len(WithTokens(in_elements)) :
     PrefixTokens(WithTokens(in_elements), j - 1) = PrefixTokens(returned, k)}

\* C17 (greedy maximality): in the returned list, each chunk but the last,
\* together with the first fragment of the chunk after it, has more than
\* max_tokens tokens: a chunk is closed only before a fragment that does not
\* fit.
C17_GreedyMaximality ==
  cpc = "done" =>
    \A k \in 1..(Len(returned) - 1) :
      /\ FirstFragmentAfter(k) # {}
      /\ \A j \in FirstFragmentAfter(k) :
           TokenCount(returned[k].text)
             + TokenCount(WithTokens(in_elements)[j].text) > max_tokens

\* C17's case: a returned list with a chunk under the budget that was closed
\* before a fragment too large for the room left, and with a chunk of two
\* elements that fills the budget exactly.
C17_Witness ==
  /\ cpc = "done"
  /\ \E k \in 1..(Len(returned) - 1) :
       /\ TokenCount(returned[k].text) < max_tokens
       /\ \E j \in FirstFragmentAfter(k) :
            TokenCount(WithTokens(in_elements)[j].text) <= max_tokens
  /\ \E k \in 1..(Len(returned) - 1) :
       /\ TokenCount(returned[k].text) = max_tokens
       /\ \A j \in 1..Len(in_elements) : returned[k].html # in_elements[j].html

(***************************************************************************)
(* The accumulator of the chunker                                          *)
(***************************************************************************)

\* C18 (accumulator invariant): at every step of the loop token_count is the
\* number of pending tokens, and the pending tokens are empty exactly when
\* the pending markups are; and every chunk emitted, during the loop or at
\* its end, has at least one token and the markup of at least one element.
C18_AccumulatorInvariant ==
  cpc # "off" =>
    /\ token_count = Len(current_tokens)
    /\ current_tokens = << >> <=> current_html = << >>
    /\ \A k \in 1..Len(chunks) :
         /\ TokenCount(chunks[k].text) >= 1
         /\ chunks[k].text # << >>
         /\ chunks[k].html # << >>
         /\ \E j \in 1..Len(in_elements) :
              /\ Len(in_elements[j].html) <= Len(chunks[k].html)
              /\ SubSeq(chunks[k].html, 1, Len(in_elements[j].html)) = in_elements[j].html

\* C18's case: in the loop, past an element without tokens that came while
\* nothing was pending, with a chunk emitted and fragments pending.
C18_Witness ==
  /\ cpc = "loop"
  /\ pos > 2
  /\ split(in_elements[1].text) = << >>
  /\ \E j \in 2..(pos - 1) : split(in_elements[j].text) = << >>
  /\ Len(chunks) >= 1
  /\ token_count >= 1
  /\ current_html # << >>

=============================================================================
